---- MODULE Spec2Model ----
(***************************************************************************)
(* certbot-dns-tencentcloud: the DNS-01 authenticator of                   *)
(* certbot_dns_tencentcloud/certbot_tencentcloud_plugins.py.               *)
(*                                                                         *)
(* A Python str is a sequence of one-character strings, so that split,     *)
(* join, endswith and slicing are computed character by character.  The    *)
(* DNSPod service is a map from the domains the account owns to their      *)
(* ordered record lists; every client call is appended to a call log and   *)
(* may fail (the set faults holds the positions, in the handler's call     *)
(* sequence, of the calls that raise).                                     *)
(***************************************************************************)
EXTENDS Integers, Sequences, FiniteSets, TLC

VARIABLES zones,         \* DNSPod: owned domain -> its record list, in listing order
          nextId,        \* DNSPod: the RecordId the next CreateRecord returns
          cleanup_maps,  \* Authenticator.cleanup_maps: validation_name -> <<base_domain, record_id>>
          created,       \* history: validation_name -> <<Domain, RecordId>> of the last successful CreateRecord
          last,          \* the most recent call: its arguments, its outcome and its client calls
          threads        \* the _perform calls running side by side: thread -> its locals and position

vars == <<zones, nextId, cleanup_maps, created, last, threads>>

----------------------------------------------------------------------------
(* Bounds of the model *)

\* records per DescribeRecordList page (the service's Limit, scaled down)
PageSize == 2
\* how many provider calls of one handler invocation may raise
MaxFaults == 1
\* how many times CreateRecord may be reached in one behaviour
MaxCreates == 2

(* Program constants *)

\* request.TTL
TTL == 600

----------------------------------------------------------------------------
(* Python str operations *)

DOT == "."

Min(a, b) == IF a < b THEN a ELSE b
Max(a, b) == IF a > b THEN a ELSE b

\* s.split("."), scanning from position k with the current segment cur
RECURSIVE splitFrom(_, _, _)
splitFrom(s, k, cur) ==
    IF k > Len(s) THEN <<cur>>
    ELSE IF s[k] = DOT THEN <<cur>> \o splitFrom(s, k + 1, <<>>)
    ELSE splitFrom(s, k + 1, Append(cur, s[k]))

split(s) == splitFrom(s, 1, <<>>)

\* ".".join(segs)
RECURSIVE join(_)
join(segs) ==
    IF Len(segs) = 0 THEN <<>>
    ELSE IF Len(segs) = 1 THEN segs[1]
    ELSE segs[1] \o <<DOT>> \o join(Tail(segs))

\* segments[i:] for a 0-based i >= 0
sliceFrom(segs, i) == SubSeq(segs, i + 1, Len(segs))

\* s.endswith(suffix)
endswith(s, suffix) ==
    /\ Len(suffix) <= Len(s)
    /\ SubSeq(s, Len(s) - Len(suffix) + 1, Len(s)) = suffix

\* s[:-n] for n >= 1
dropLast(s, n) == SubSeq(s, 1, Max(Len(s) - n, 0))

----------------------------------------------------------------------------
(* The names of the model *)

Str_c == <<"c">>
Str_b_c == <<"b", ".", "c">>
Str_a_b_c == <<"a", ".", "b", ".", "c">>

\* the domains a call may name: one, two and three labels
Domains == {Str_c, Str_b_c, Str_a_b_c}

\* the domains the account may own
ZoneUniverse == {Str_b_c, Str_a_b_c}

\* certbot's validation_domain_name(domain): "_acme-challenge." + domain, the label shortened to "_"
Challenge(domain) == <<"_", DOT>> \o domain

\* a validation name that is no sub-name of any of Domains ("_.ab.c")
Misuse == <<"_", ".", "a", "b", ".", "c">>

ValidationNames == {Challenge(d) : d \in Domains} \cup {Misuse}

Tokens == {"t1", "t2"}

\* a record of the service, as DescribeRecordList lists it
Rec(id, name, type, value, ttl) ==
    [RecordId |-> id, Name |-> name, Type |-> type, Value |-> value, TTL |-> ttl]

\* the RecordIds of the initial records of a zone start above IdBase(zone)
IdBase(zone) == 10 * Len(zone)

\* what a zone may hold before the first call: records of other parties, and
\* TXT records a former run left behind
InitialLists(zone) ==
    LET base == IdBase(zone)
    IN  { <<>>,
          << Rec(base + 1, <<"_">>, "A", "ip", 300) >> }
        \cup
        IF zone # Str_b_c THEN {}
        ELSE { << Rec(base + 1, <<"_">>, "TXT", "old", TTL),
                  Rec(base + 2, <<"_">>, "A", "ip", 300) >>,
               << Rec(base + 1, <<"w">>, "A", "ip", 300),
                  Rec(base + 2, <<"_">>, "TXT", "old", TTL) >>,
               << Rec(base + 1, <<"w">>, "A", "ip", 300),
                  Rec(base + 2, <<"_", ".", "a">>, "CNAME", "x", 300),
                  Rec(base + 3, <<"m">>, "MX", "mx", 300) >> }

\* the first RecordId the service gives to a record created in a behaviour
FirstNewId == 10 * (1 + Len(Str_a_b_c))

----------------------------------------------------------------------------
(* The DNSPod client.  A world w is [zones, nextId, calls]: the service's    *)
(* state and the log of the client calls the running handler has made.      *)

\* the world after one more client call, logged with its request and its result
Called(w, api, domain, id, offset, sub, value, result) ==
    [w EXCEPT !.calls = Append(@, [api |-> api, Domain |-> domain, RecordId |-> id,
                                   Offset |-> offset, SubDomain |-> sub,
                                   Value |-> value, result |-> result])]

\* the call about to be made is one of those that raise TencentCloudSDKException
Raises(w, faults) == (Len(w.calls) + 1) \in faults

\* the service answers a call on the domain: the account owns it and nothing raises
Answers(w, faults, domain) == domain \in DOMAIN w.zones /\ ~Raises(w, faults)

\* the page of a record list that starts after offset records
Page(list, offset) == SubSeq(list, offset + 1, Min(Len(list), offset + PageSize))

\* client.DescribeRecordList(request): one page of the domain's records and the total count
DescribeRecordList(w, faults, domain, offset) ==
    IF Answers(w, faults, domain)
    THEN [w |-> Called(w, "DescribeRecordList", domain, 0, offset, <<>>, "", "ok"),
          ok |-> TRUE,
          RecordList |-> Page(w.zones[domain], offset),
          TotalCount |-> Len(w.zones[domain])]
    ELSE [w |-> Called(w, "DescribeRecordList", domain, 0, offset, <<>>, "", "error"),
          ok |-> FALSE, RecordList |-> <<>>, TotalCount |-> 0]

\* client.CreateRecord(request): appends the record and returns its RecordId
CreateRecord(w, faults, domain, sub, type, value, ttl) ==
    IF Answers(w, faults, domain)
    THEN [w |-> [Called(w, "CreateRecord", domain, w.nextId, 0, sub, value, "ok") EXCEPT
                    !.zones[domain] = Append(@, Rec(w.nextId, sub, type, value, ttl)),
                    !.nextId = @ + 1],
          ok |-> TRUE, RecordId |-> w.nextId]
    ELSE [w |-> Called(w, "CreateRecord", domain, 0, 0, sub, value, "error"),
          ok |-> FALSE, RecordId |-> 0]

\* the positions of the records of a list that carry the RecordId
Positions(list, id) == {k \in 1..Len(list) : list[k].RecordId = id}

\* list without the record that carries the RecordId
Without(list, id) == SelectSeq(list, LAMBDA r : r.RecordId # id)

\* client.DeleteRecord(request): removes the record; an unknown domain or RecordId raises
DeleteRecord(w, faults, domain, id) ==
    IF Answers(w, faults, domain) /\ Positions(w.zones[domain], id) # {}
    THEN [w |-> [Called(w, "DeleteRecord", domain, id, 0, <<>>, "", "ok") EXCEPT
                    !.zones[domain] = Without(@, id)],
          ok |-> TRUE]
    ELSE [w |-> Called(w, "DeleteRecord", domain, id, 0, <<>>, "", "error"), ok |-> FALSE]

----------------------------------------------------------------------------
(* Authenticator *)

\* describe_record_list after its first client call: the first response is parsed
\* with json.loads; a further page is requested when TotalCount exceeds what was
\* collected, and its response object is subscripted unparsed, which raises
\* TypeError; every exception leaves as APIException
collect(first, faults, domain) ==
    IF ~first.ok
    THEN [w |-> first.w, ok |-> FALSE, records |-> <<>>]
    ELSE IF first.TotalCount > Len(first.RecordList)
    THEN [w |-> DescribeRecordList(first.w, faults, domain, Len(first.RecordList)).w,
          ok |-> FALSE, records |-> <<>>]
    ELSE [w |-> first.w, ok |-> TRUE, records |-> first.RecordList]

\* describe_record_list: ok is FALSE where it raises APIException
describe_record_list(w, faults, domain) ==
    collect(DescribeRecordList(w, faults, domain, 0), faults, domain)

RECURSIVE probe(_, _, _, _, _)
RECURSIVE probed(_, _, _, _, _, _)

\* determine_base_domain raises PluginError with the tried list
exhausted(w, tried) ==
    [w |-> w, ok |-> FALSE, base_domain |-> <<>>, records |-> <<>>, tried |-> tried]

\* a faulty try statement: the except clause is missing, the candidate is returned
\* whether or not its listing succeeded
probed_unchecked(resp, faults, segments, i, dt, tried) ==
    [w |-> resp.w, ok |-> TRUE, base_domain |-> dt, records |-> resp.records,
     tried |-> tried]

\* a faulty except clause: the exception of a listing ends the resolution
probed_abort(resp, faults, segments, i, dt, tried) ==
    IF resp.ok
    THEN [w |-> resp.w, ok |-> TRUE, base_domain |-> dt, records |-> resp.records,
          tried |-> tried]
    ELSE exhausted(resp.w, tried)

\* the try statement of the loop, with the answer of describe_record_list for dt:
\* return dt, or continue with the next index
probed(resp, faults, segments, i, dt, tried) ==
    IF resp.ok
    THEN [w |-> resp.w, ok |-> TRUE, base_domain |-> dt, records |-> resp.records,
          tried |-> tried]
    ELSE probe(resp.w, faults, segments, i, tried)

\* a faulty loop: tried.append(dt) is missing
probe_untracked(w, faults, segments, i, tried) ==
    IF i < 0 THEN exhausted(w, tried)
    ELSE probed(describe_record_list(w, faults, join(sliceFrom(segments, i))),
                faults, segments, i - 1, join(sliceFrom(segments, i)), tried)

\* the while loop of determine_base_domain, at index i with the candidates tried so
\* far: dt is appended to tried and i decremented before dt is listed
probe(w, faults, segments, i, tried) ==
    IF i < 0 THEN exhausted(w, tried)
    ELSE probed(describe_record_list(w, faults, join(sliceFrom(segments, i))),
                faults, segments, i - 1, join(sliceFrom(segments, i)),
                Append(tried, join(sliceFrom(segments, i))))

\* a faulty start: the loop begins at the last label
firstIndex_tld(segments) == Len(segments) - 1

\* the index the loop of determine_base_domain starts at
firstIndex(segments) == Len(segments) - 2

\* determine_base_domain: ok is FALSE where it raises PluginError
determine_base_domain(w, faults, domain) ==
    probe(w, faults, split(domain), firstIndex(split(domain)), <<>>)

\* a faulty check: the base domain is looked for without the dot before it
chk_base_domain_undotted(base_domain, validation_name) ==
    endswith(validation_name, base_domain)

\* chk_base_domain: TRUE where it returns, FALSE where it raises PluginError
chk_base_domain(base_domain, validation_name) ==
    endswith(validation_name, <<DOT>> \o base_domain)

RECURSIVE deleteMatching(_, _, _, _, _, _)
RECURSIVE deleted(_, _, _, _, _, _)

\* a faulty loop: a DeleteRecord that raised is sent again
deleted_retry(del, faults, domain, subdomain, records, k) ==
    IF del.ok
    THEN deleteMatching(del.w, faults, domain, subdomain, records, k + 1)
    ELSE deleteMatching(del.w, faults, domain, subdomain, records, k)

\* the loop of delete_record after the DeleteRecord of the k-th record: an
\* exception ends it, otherwise it goes on with the next record
deleted(del, faults, domain, subdomain, records, k) ==
    IF del.ok
    THEN deleteMatching(del.w, faults, domain, subdomain, records, k + 1)
    ELSE [w |-> del.w, ok |-> FALSE, site |-> "DeleteRecord"]

\* a faulty loop: the record type is not checked, every record of the name is deleted
deleteMatching_any(w, faults, domain, subdomain, records, k) ==
    IF k > Len(records) THEN [w |-> w, ok |-> TRUE, site |-> "none"]
    ELSE IF records[k].Name # subdomain
    THEN deleteMatching(w, faults, domain, subdomain, records, k + 1)
    ELSE deleted(DeleteRecord(w, faults, domain, records[k].RecordId),
                 faults, domain, subdomain, records, k)

\* a faulty loop: the name of a record is not compared, every TXT record of the
\* zone is deleted
deleteMatching_txt(w, faults, domain, subdomain, records, k) ==
    IF k > Len(records) THEN [w |-> w, ok |-> TRUE, site |-> "none"]
    ELSE IF records[k].Type # "TXT"
    THEN deleteMatching(w, faults, domain, subdomain, records, k + 1)
    ELSE deleted(DeleteRecord(w, faults, domain, records[k].RecordId),
                 faults, domain, subdomain, records, k)

\* a faulty comparison: a record matches when its name begins the subdomain
deleteMatching_prefix(w, faults, domain, subdomain, records, k) ==
    IF k > Len(records) THEN [w |-> w, ok |-> TRUE, site |-> "none"]
    ELSE IF records[k].Name # SubSeq(subdomain, 1, Min(Len(records[k].Name), Len(subdomain)))
    THEN deleteMatching(w, faults, domain, subdomain, records, k + 1)
    ELSE IF records[k].Type # "TXT"
    THEN [w |-> w, ok |-> FALSE, site |-> "conflict"]
    ELSE deleted(DeleteRecord(w, faults, domain, records[k].RecordId),
                 faults, domain, subdomain, records, k)

\* the for loop of delete_record, at the k-th listed record
deleteMatching(w, faults, domain, subdomain, records, k) ==
    IF k > Len(records) THEN [w |-> w, ok |-> TRUE, site |-> "none"]
    ELSE IF records[k].Name # subdomain
    THEN deleteMatching(w, faults, domain, subdomain, records, k + 1)
    ELSE IF records[k].Type # "TXT"
    THEN [w |-> w, ok |-> FALSE, site |-> "conflict"]
    ELSE deleted(DeleteRecord(w, faults, domain, records[k].RecordId),
                 faults, domain, subdomain, records, k)

\* delete_record after its listing: the listing raised, or the loop runs
scan(listed, faults, domain, subdomain) ==
    IF ~listed.ok
    THEN [w |-> listed.w, ok |-> FALSE, site |-> "describe_record_list"]
    ELSE deleteMatching(listed.w, faults, domain, subdomain, listed.records, 1)

\* a faulty pre-clean: record['Name'] is compared with the full name
delete_record_fqdn(w, faults, domain, subdomain) ==
    scan(describe_record_list(w, faults, domain), faults, domain,
         subdomain \o <<DOT>> \o domain)

\* delete_record: ok is FALSE where it raises, site names the statement that raised
delete_record(w, faults, domain, subdomain) ==
    scan(describe_record_list(w, faults, domain), faults, domain, subdomain)

\* m[k] = v, as a dict assignment
Put(m, k, v) == [x \in DOMAIN m \cup {k} |-> IF x = k THEN v ELSE m[x]]

\* what a handler leaves: the world, the map, how it ended and where it raised;
\* res is the result of its resolution, probes the number of calls that took
Outcome(w, maps, outcome, site, res, sub_domain, record_id) ==
    [w |-> w, cleanup_maps |-> maps, outcome |-> outcome, site |-> site,
     base_domain |-> res.base_domain, tried |-> res.tried, resolved |-> res.ok,
     probes |-> Len(res.w.calls), sub_domain |-> sub_domain, record_id |-> record_id,
     records |-> <<>>]

\* a faulty store: the entry is keyed by the domain, not by the validation name
store_by_domain(maps, domain, validation_name, base_domain, record_id) ==
    Put(maps, domain, <<base_domain, record_id>>)

\* a faulty store: the map is replaced by one that holds the new entry alone
store_fresh(maps, domain, validation_name, base_domain, record_id) ==
    Put(<<>>, validation_name, <<base_domain, record_id>>)

\* self.cleanup_maps[validation_name] = (base_domain, record_id)
store(maps, domain, validation_name, base_domain, record_id) ==
    Put(maps, validation_name, <<base_domain, record_id>>)

\* a faulty slice: the dot before the base domain is kept
subDomain_dotted(base_domain, validation_name) == dropLast(validation_name, Len(base_domain))

\* sub_domain = validation_name[: -(len(base_domain) + 1)]
subDomain(base_domain, validation_name) == dropLast(validation_name, Len(base_domain) + 1)

\* a faulty handler: the entry is stored whether or not CreateRecord raised
recorded_unchecked(response, res, maps, domain, validation_name) ==
    Outcome(response.w,
            store(maps, domain, validation_name, res.base_domain, response.RecordId),
            IF response.ok THEN "ok" ELSE "APIException",
            IF response.ok THEN "none" ELSE "CreateRecord", res,
            subDomain(res.base_domain, validation_name), response.RecordId)

\* _perform after client.CreateRecord: the RecordId of the response is stored
recorded(response, res, maps, domain, validation_name) ==
    IF ~response.ok
    THEN Outcome(response.w, maps, "APIException", "CreateRecord", res,
                 subDomain(res.base_domain, validation_name), 0)
    ELSE Outcome(response.w,
                 store(maps, domain, validation_name, res.base_domain, response.RecordId),
                 "ok", "none", res,
                 subDomain(res.base_domain, validation_name), response.RecordId)

\* _perform after delete_record: an exception leaves as APIException, otherwise the
\* TXT record is created
precleaned(cleaned, res, maps, faults, domain, validation_name, validation) ==
    IF ~cleaned.ok
    THEN Outcome(cleaned.w, maps, "APIException", cleaned.site, res,
                 subDomain(res.base_domain, validation_name), 0)
    ELSE recorded(CreateRecord(cleaned.w, faults, res.base_domain,
                               subDomain(res.base_domain, validation_name),
                               "TXT", validation, TTL),
                  res, maps, domain, validation_name)

\* _perform after determine_base_domain: PluginError leaves as it is
resolved(res, maps, faults, domain, validation_name, validation) ==
    IF ~res.ok
    THEN Outcome(res.w, maps, "PluginError", "determine_base_domain", res, <<>>, 0)
    ELSE IF ~chk_base_domain(res.base_domain, validation_name)
    THEN Outcome(res.w, maps, "PluginError", "chk_base_domain", res, <<>>, 0)
    ELSE precleaned(delete_record(res.w, faults, res.base_domain,
                                  subDomain(res.base_domain, validation_name)),
                    res, maps, faults, domain, validation_name, validation)

\* _perform
_perform(w, maps, faults, domain, validation_name, validation) ==
    resolved(determine_base_domain(w, faults, domain),
             maps, faults, domain, validation_name, validation)

\* no resolution took place
NoResolution == [base_domain |-> <<>>, tried |-> <<>>, ok |-> FALSE, w |-> [calls |-> <<>>]]

\* _cleanup after client.DeleteRecord: an exception, or a response that is not
\* truthy, is printed and raised as APIException
cleanedUp(del, maps, record_id) ==
    IF del.ok
    THEN Outcome(del.w, maps, "ok", "none", NoResolution, <<>>, record_id)
    ELSE Outcome(del.w, maps, "APIException", "DeleteRecord", NoResolution, <<>>, record_id)

\* the if branch of _cleanup: validation_name has an entry; falsy: the service
\* answers DeleteRecord with a response that is not truthy
cleanup_entry(w, maps, faults, falsy, validation_name) ==
    cleanedUp(IF falsy /\ ~Raises(w, faults)
              THEN [w |-> Called(w, "DeleteRecord", maps[validation_name][1],
                                 maps[validation_name][2], 0, <<>>, "", "falsy"),
                    ok |-> FALSE]
              ELSE DeleteRecord(w, faults, maps[validation_name][1],
                                maps[validation_name][2]),
              maps, maps[validation_name][2])

\* a faulty else branch: a missing entry raises
cleanup_missing_raises(w, maps) ==
    Outcome(w, maps, "APIException", "cleanup_maps", NoResolution, <<>>, 0)

\* the else branch of _cleanup: it prints and returns
cleanup_missing(w, maps) == Outcome(w, maps, "ok", "none", NoResolution, <<>>, 0)

\* _cleanup
_cleanup(w, maps, faults, falsy, validation_name) ==
    IF validation_name \in DOMAIN maps
    THEN cleanup_entry(w, maps, faults, falsy, validation_name)
    ELSE cleanup_missing(w, maps)

----------------------------------------------------------------------------
(* The state machine: certbot calls _perform and _cleanup, one at a time *)

\* the largest position, in a handler's call sequence, of a call that may raise:
\* a probe, the listing of delete_record, a DeleteRecord per listed record, CreateRecord
MaxCalls == PageSize + 3

\* the fault sets of a handler that makes at most n client calls
FaultSets(n) == {f \in SUBSET (1..Min(n, MaxCalls)) : Cardinality(f) <= MaxFaults}

World == [zones |-> zones, nextId |-> nextId, calls |-> <<>>]

\* the successful CreateRecord calls of a call log
Creates(calls) == {k \in 1..Len(calls) : calls[k].api = "CreateRecord" /\ calls[k].result = "ok"}

\* the domain and RecordId of the successful CreateRecord of a call log
Made(calls) == << calls[CHOOSE k \in Creates(calls) : TRUE].Domain,
                  calls[CHOOSE k \in Creates(calls) : TRUE].RecordId >>

\* what last keeps of a call
Summary(op, domain, validation_name, validation, r) ==
    [op |-> op, domain |-> domain, validation_name |-> validation_name,
     validation |-> validation, outcome |-> r.outcome, site |-> r.site,
     resolved |-> r.resolved, base_domain |-> r.base_domain, tried |-> r.tried,
     probes |-> r.probes, sub_domain |-> r.sub_domain, record_id |-> r.record_id,
     records |-> r.records, calls |-> r.w.calls]

NoCall == [w |-> [calls |-> <<>>], outcome |-> "none", site |-> "none", resolved |-> FALSE,
           base_domain |-> <<>>, tried |-> <<>>, probes |-> 0, sub_domain |-> <<>>,
           record_id |-> 0, records |-> <<>>]

\* the threads that may run _perform side by side
Threads == {1, 2}

\* a thread that has not entered _perform: its position and the locals of _perform
Idle ==
    [pc |-> "idle", domain |-> <<>>, validation_name |-> <<>>, validation |-> "",
     i |-> 0, base_domain |-> <<>>, sub_domain |-> <<>>, records |-> <<>>, k |-> 0,
     record_id |-> 0]

Init ==
    /\ \E owned \in SUBSET ZoneUniverse :
           zones \in {z \in [owned -> UNION {InitialLists(d) : d \in owned}] :
                          \A d \in owned : z[d] \in InitialLists(d)}
    /\ nextId = FirstNewId
    /\ cleanup_maps = <<>>
    /\ created = <<>>
    /\ last = Summary("none", <<>>, <<>>, "", NoCall)
    /\ threads = [p \in Threads |-> Idle]

\* the state a handler that ended as r leaves
Ended(op, domain, validation_name, validation, r) ==
    /\ zones' = r.w.zones
    /\ nextId' = r.w.nextId
    /\ cleanup_maps' = r.cleanup_maps
    /\ created' = IF Creates(r.w.calls) = {} THEN created
                  ELSE Put(created, validation_name, Made(r.w.calls))
    /\ last' = Summary(op, domain, validation_name, validation, r)
    /\ threads' = threads

\* certbot's perform: _perform(domain, validation_name, validation)
Setup(domain, validation_name, validation, faults) ==
    /\ nextId < FirstNewId + MaxCreates
    /\ Ended("_perform", domain, validation_name, validation,
             _perform(World, cleanup_maps, faults, domain, validation_name, validation))

\* certbot's cleanup: _cleanup(domain, validation_name, validation); domain and
\* validation are only printed, and are left out; a response that is not truthy
\* is the answer of a call that did not raise
Cleanup(validation_name, faults, falsy) ==
    /\ falsy => faults = {}
    /\ Ended("_cleanup", <<>>, validation_name, "",
             _cleanup(World, cleanup_maps, faults, falsy, validation_name))

\* describe_record_list as a handler result
Listed(r) ==
    [NoCall EXCEPT !.w = r.w, !.records = r.records,
                   !.outcome = IF r.ok THEN "ok" ELSE "APIException",
                   !.site = IF r.ok THEN "none" ELSE "describe_record_list"]

\* describe_record_list(client, domain), called on its own
ListRecords(domain, faults) ==
    /\ last' = Summary("describe_record_list", domain, <<>>, "",
                       Listed(describe_record_list(World, faults, domain)))
    /\ UNCHANGED <<zones, nextId, cleanup_maps, created, threads>>

\* the validation names certbot, or a misusing caller, passes for a domain
NamesFor(domain) == {Challenge(domain)} \cup (IF domain = Str_b_c THEN {Misuse} ELSE {})

Next ==
    \/ \E d \in Domains, t \in Tokens, f \in FaultSets(MaxCalls) :
           \E v \in NamesFor(d) : Setup(d, v, t, f)
    \/ \E v \in ValidationNames, f \in FaultSets(1), falsy \in BOOLEAN : Cleanup(v, f, falsy)
    \/ \E d \in Domains, f \in FaultSets(2) : ListRecords(d, f)

Spec == Init /\ [][Next]_vars

-----------------------------------------------------------------------------
(* _perform on two threads: one step per client call or map access *)

\* a thread with its position moved
At(t, pc) == [t EXCEPT !.pc = pc]

\* the thread after the statement that raised: the exception leaves _perform
Raised(t) == At(t, "raised")

\* a thread enters _perform: segments and i are set; the loop of
\* determine_base_domain is not entered where i < 0, and PluginError is raised
Entered(domain, validation_name, validation) ==
    [Idle EXCEPT !.pc = IF firstIndex(split(domain)) < 0 THEN "raised" ELSE "probe",
                 !.domain = domain, !.validation_name = validation_name,
                 !.validation = validation, !.i = firstIndex(split(domain))]

\* the candidate of the loop of determine_base_domain at the index of the thread
Candidate(t) == join(sliceFrom(split(t.domain), t.i))

\* the thread after the listing of its candidate: the candidate is returned and
\* chk_base_domain and the slice of sub_domain follow, or the loop goes on with
\* the next index, or it is over and PluginError is raised
Probed(t, resp) ==
    IF resp.ok
    THEN IF chk_base_domain(Candidate(t), t.validation_name)
         THEN [t EXCEPT !.pc = "list", !.base_domain = Candidate(t),
                        !.sub_domain = subDomain(Candidate(t), t.validation_name)]
         ELSE Raised([t EXCEPT !.base_domain = Candidate(t)])
    ELSE IF t.i - 1 < 0 THEN Raised(t)
    ELSE [t EXCEPT !.i = t.i - 1]

\* the thread after the listing of delete_record: the for loop starts, or with no
\* record listed CreateRecord is next
Scanned(t, listed) ==
    IF ~listed.ok THEN Raised(t)
    ELSE [t EXCEPT !.records = listed.records, !.k = 1,
                   !.pc = IF listed.records = <<>> THEN "create" ELSE "delete"]

\* the thread after the loop body of delete_record for its k-th record
Cleaned(t, del) ==
    IF ~del.ok THEN Raised(t)
    ELSE [t EXCEPT !.k = t.k + 1,
                   !.pc = IF t.k + 1 > Len(t.records) THEN "create" ELSE "delete"]

\* the thread after client.CreateRecord
Answered(t, response) ==
    IF ~response.ok THEN Raised(t)
    ELSE [t EXCEPT !.pc = "store", !.record_id = response.RecordId]

\* the state a step of thread p leaves, with the service as w
Stepped(p, t, w) ==
    /\ threads' = [threads EXCEPT ![p] = t]
    /\ zones' = w.zones
    /\ nextId' = w.nextId
    /\ created' = IF Creates(w.calls) = {} THEN created
                  ELSE Put(created, t.validation_name, Made(w.calls))
    /\ UNCHANGED last

\* thread p is called with _perform(domain, validation_name, validation)
Enter(p, domain, validation_name, validation) ==
    /\ threads[p].pc = "idle"
    /\ \A q \in Threads : threads[q].validation_name # validation_name
    /\ Stepped(p, Entered(domain, validation_name, validation), World)
    /\ UNCHANGED cleanup_maps

\* thread p lists its candidate (line 115)
ProbeStep(p, faults) ==
    /\ threads[p].pc = "probe"
    /\ Stepped(p, Probed(threads[p],
                         describe_record_list(World, faults, Candidate(threads[p]))),
               World)
    /\ UNCHANGED cleanup_maps

\* thread p lists the resolved zone in delete_record (line 180)
ListStep(p, faults) ==
    /\ threads[p].pc = "list"
    /\ Stepped(p, Scanned(threads[p],
                          describe_record_list(World, faults, threads[p].base_domain)),
               World)
    /\ UNCHANGED cleanup_maps

\* the loop body of delete_record for the k-th listed record of a thread
Body(t, faults) ==
    deleteMatching(World, faults, t.base_domain, t.sub_domain, <<t.records[t.k]>>, 1)

\* thread p runs the loop body of delete_record for its k-th listed record
DeleteStep(p, faults) ==
    /\ threads[p].pc = "delete"
    /\ Stepped(p, Cleaned(threads[p], Body(threads[p], faults)),
               Body(threads[p], faults).w)
    /\ UNCHANGED cleanup_maps

\* the CreateRecord of a thread (lines 154-163)
Sent(t, faults) ==
    CreateRecord(World, faults, t.base_domain, t.sub_domain, "TXT", t.validation, TTL)

\* thread p calls client.CreateRecord
CreateStep(p, faults) ==
    /\ threads[p].pc = "create"
    /\ Stepped(p, Answered(threads[p], Sent(threads[p], faults)),
               Sent(threads[p], faults).w)
    /\ UNCHANGED cleanup_maps

\* thread p stores its entry (line 168) and returns
StoreStep(p) ==
    /\ threads[p].pc = "store"
    /\ Stepped(p, At(threads[p], "returned"), World)
    /\ cleanup_maps' = store(cleanup_maps, threads[p].domain, threads[p].validation_name,
                             threads[p].base_domain, threads[p].record_id)

NextConcurrent ==
    \/ \E p \in Threads, d \in Domains, t \in Tokens :
           \E v \in NamesFor(d) : Enter(p, d, v, t)
    \/ \E p \in Threads, f \in FaultSets(2) : ProbeStep(p, f)
    \/ \E p \in Threads, f \in FaultSets(2) : ListStep(p, f)
    \/ \E p \in Threads, f \in FaultSets(1) : DeleteStep(p, f)
    \/ \E p \in Threads, f \in FaultSets(1) : CreateStep(p, f)
    \/ \E p \in Threads : StoreStep(p)

SpecConcurrent == Init /\ [][NextConcurrent]_vars

----------------------------------------------------------------------------
(* Properties *)

\* the positions of the TXT records named name in zone z of the service state zs
TXTAt(zs, z, name) ==
    {k \in 1..Len(zs[z]) : zs[z][k].Name = name /\ zs[z][k].Type = "TXT"}

\* the RecordIds of zone z in the service state zs
IdsIn(zs, z) == {zs[z][k].RecordId : k \in 1..Len(zs[z])}

\* the successful DeleteRecord calls of a call log
Deletes(calls) == {k \in 1..Len(calls) : calls[k].api = "DeleteRecord" /\ calls[k].result = "ok"}

\* C1: after two successful _perform calls in a row for the same validation name
\* (tokens equal or not), the zone the second one resolved holds exactly one TXT
\* record at the relative name, the one carrying the second token; the record the
\* first call created in that zone is gone.
C1_SetupIdempotent ==
    [][ ( /\ last.op = "_perform" /\ last.outcome = "ok"
          /\ last'.op = "_perform" /\ last'.outcome = "ok"
          /\ last'.validation_name = last.validation_name )
        => LET z == last'.base_domain
               at == TXTAt(zones', z, last'.sub_domain)
           IN  /\ Cardinality(at) = 1
               /\ \A k \in at : /\ zones'[z][k].Value = last'.validation
                                /\ zones'[z][k].RecordId = last'.record_id
               /\ last.base_domain = z => last.record_id \notin IdsIn(zones', z) ]_vars

\* C1 witness: a successful _perform whose pre-clean deleted a record that an
\* earlier _perform had created at the same name.
C1_Witness ==
    /\ last.op = "_perform" /\ last.outcome = "ok"
    /\ \E k \in Deletes(last.calls) : last.calls[k].RecordId >= FirstNewId
    /\ Cardinality(TXTAt(zones, last.base_domain, last.sub_domain)) = 1

\* C2 (as claimed): _cleanup returns normally whatever the map holds and whatever
\* its DeleteRecord call does.
C2_CleanupNeverRaises ==
    last.op = "_cleanup" => last.outcome = "ok"

\* C3 (as claimed): once _cleanup has finished, the map holds no entry for its
\* validation name.
C3_CleanupRemovesEntry ==
    last.op = "_cleanup" => last.validation_name \notin DOMAIN cleanup_maps

\* C4: a _cleanup for a validation name for which a _perform has created a record
\* makes exactly one client call, the DeleteRecord of the domain and RecordId of the
\* most recent successful CreateRecord for that name.
C4_CleanupTargetsCreated ==
    (last.op = "_cleanup" /\ last.validation_name \in DOMAIN created)
    => /\ Len(last.calls) = 1
       /\ last.calls[1].api = "DeleteRecord"
       /\ last.calls[1].Domain = created[last.validation_name][1]
       /\ last.calls[1].RecordId = created[last.validation_name][2]

\* C4 witness: a _cleanup that deleted the record created for its validation name.
C4_Witness ==
    /\ last.op = "_cleanup" /\ last.outcome = "ok"
    /\ last.validation_name \in DOMAIN created
    /\ Deletes(last.calls) # {}
    /\ created[last.validation_name][2] \notin IdsIn(zones, created[last.validation_name][1])

\* C5: a _cleanup for a validation name without an entry in the map returns
\* normally, makes no client call and leaves the map and the zones as they were.
C5_CleanupWithoutEntry ==
    [][ (last'.op = "_cleanup" /\ last'.validation_name \notin DOMAIN cleanup_maps)
        => /\ last'.outcome = "ok"
           /\ last'.calls = <<>>
           /\ cleanup_maps' = cleanup_maps
           /\ zones' = zones /\ nextId' = nextId ]_vars

\* C5 witness: a _cleanup without an entry, while the map holds another entry and
\* the service holds records.
C5_Witness ==
    /\ last.op = "_cleanup" /\ last.outcome = "ok"
    /\ last.validation_name \notin DOMAIN cleanup_maps
    /\ DOMAIN cleanup_maps # {}
    /\ \E z \in DOMAIN zones : zones[z] # <<>>

\* the candidates of determine_base_domain for a domain, in the order the loop
\* reaches them: the suffix of two labels first, the whole name last
ProbeOrder(domain) ==
    LET segs == split(domain)
        n == Len(segs)
    IN  [k \in 1..(n - 1) |-> join(SubSeq(segs, n - k, n))]

Candidates(domain) == {ProbeOrder(domain)[k] : k \in DOMAIN ProbeOrder(domain)}

\* among the first n calls of a log, a listing of domain d failed: a
\* DescribeRecordList on d raised, or a further page of d was requested
ListingFailed(calls, n, d) ==
    \E k \in 1..n : /\ calls[k].api = "DescribeRecordList" /\ calls[k].Domain = d
                    /\ (calls[k].result = "error" \/ calls[k].Offset > 0)

\* the n-th call of a log is the only page of domain d, and it was answered
ListingSucceeded(calls, n, d) ==
    /\ n \in 1..Len(calls)
    /\ calls[n].api = "DescribeRecordList" /\ calls[n].Domain = d
    /\ calls[n].result = "ok" /\ calls[n].Offset = 0

\* C6 (as claimed): the zone determine_base_domain returns is the longest candidate
\* suffix of the domain that the account owns.
C6_MostSpecificOwned ==
    (last.op = "_perform" /\ last.resolved)
    => \A z \in Candidates(last.domain) \cap DOMAIN zones : Len(z) <= Len(last.base_domain)

\* C6 (amended): determine_base_domain returns the first candidate, walking from the
\* suffix of two labels towards the whole name, whose listing succeeds: the returned
\* zone is owned, its listing was the last call of the resolution, and every shorter
\* candidate was tried before it and its listing failed (the zone is not owned, the
\* call raised, or the zone holds more than one page of records).
C6_FirstListedShortestFirst ==
    (last.op = "_perform" /\ last.resolved)
    => LET order == ProbeOrder(last.domain)
           n == Len(last.tried)
       IN  /\ n \in 1..Len(order)
           /\ last.tried = SubSeq(order, 1, n)
           /\ last.base_domain = order[n]
           /\ last.base_domain \in DOMAIN zones
           /\ ListingSucceeded(last.calls, last.probes, last.base_domain)
           /\ \A k \in 1..(n - 1) :
                  /\ ListingFailed(last.calls, last.probes, order[k])
                  /\ \/ order[k] \notin DOMAIN zones
                     \/ Len(zones[order[k]]) > PageSize
                     \/ \E j \in 1..last.probes : /\ last.calls[j].Domain = order[k]
                                                  /\ last.calls[j].result = "error"

\* C6 witness: the account owns both b.c and a.b.c, no call raises, and the
\* resolution of a.b.c returns b.c.
C6_Witness ==
    /\ last.op = "_perform" /\ last.resolved
    /\ last.domain = Str_a_b_c /\ last.base_domain = Str_b_c
    /\ Str_a_b_c \in DOMAIN zones
    /\ \A k \in 1..Len(last.calls) : last.calls[k].result = "ok"

\* C7 (as claimed): for a domain of two labels or more the probing starts at index
\* len(segments) - 2 and never lists the whole name or a single label.
C7_NeverProbesWholeName ==
    (last.op = "_perform" /\ Len(split(last.domain)) >= 2)
    => LET segs == split(last.domain)
       IN  /\ last.probes >= 1
           /\ last.calls[1].Domain = join(SubSeq(segs, Len(segs) - 1, Len(segs)))
           /\ \A k \in 1..last.probes : /\ last.calls[k].Domain # last.domain
                                        /\ Len(split(last.calls[k].Domain)) >= 2

\* C7 (amended): for a domain of two labels or more the probing starts at index
\* len(segments) - 2, every probe is a DescribeRecordList on a suffix of two labels
\* or more, and the whole name is probed too: as the last candidate, once the
\* listing of every shorter candidate has failed (at once for a name of two labels).
C7_ProbesFromTwoLabels ==
    (last.op = "_perform" /\ Len(split(last.domain)) >= 2)
    => LET segs == split(last.domain)
           order == ProbeOrder(last.domain)
       IN  /\ last.probes >= 1
           /\ last.calls[1].Domain = join(SubSeq(segs, Len(segs) - 1, Len(segs)))
           /\ \A k \in 1..last.probes :
                  /\ last.calls[k].api = "DescribeRecordList"
                  /\ last.calls[k].Domain \in Candidates(last.domain)
                  /\ Len(split(last.calls[k].Domain)) >= 2
                  /\ last.calls[k].Domain = last.domain
                     => \A j \in 1..(Len(order) - 1) : ListingFailed(last.calls, k - 1, order[j])
           /\ (~last.resolved \/ last.base_domain = last.domain)
              => \E k \in 1..last.probes : last.calls[k].Domain = last.domain

\* C7 witness: the resolution of a name of three labels lists the whole name.
C7_Witness ==
    /\ last.op = "_perform" /\ Len(split(last.domain)) = 3
    /\ \E k \in 1..last.probes : last.calls[k].Domain = last.domain
    /\ last.resolved

\* the calls of the last handler after its resolution
AfterProbes == {k \in 1..Len(last'.calls) : k > last'.probes}

\* C8: when the resolved zone holds a record that is not TXT at the relative name of
\* the validation name, _perform raises APIException (from the type check of
\* delete_record, unless a client call of the pre-clean raised before it); the
\* records at that name that are not TXT stay, CreateRecord is not called and the
\* map is left as it was.
C8_ConflictRefused ==
    [][ ( /\ last'.op = "_perform" /\ last'.resolved
          /\ chk_base_domain(last'.base_domain, last'.validation_name)
          /\ \E k \in 1..Len(zones[last'.base_domain]) :
                 /\ zones[last'.base_domain][k].Name =
                        dropLast(last'.validation_name, Len(last'.base_domain) + 1)
                 /\ zones[last'.base_domain][k].Type # "TXT" )
        => LET z == last'.base_domain
               name == dropLast(last'.validation_name, Len(z) + 1)
           IN  /\ last'.outcome = "APIException"
               /\ (\A k \in AfterProbes : last'.calls[k].result = "ok")
                  => last'.site = "conflict"
               /\ \A k \in 1..Len(zones[z]) :
                      (zones[z][k].Name = name /\ zones[z][k].Type # "TXT")
                      => \E j \in 1..Len(zones'[z]) : zones'[z][j] = zones[z][k]
               /\ \A k \in 1..Len(last'.calls) : last'.calls[k].api # "CreateRecord"
               /\ \A j \in 1..Len(zones'[z]) : zones'[z][j].RecordId < nextId
               /\ nextId' = nextId
               /\ cleanup_maps' = cleanup_maps ]_vars

\* C8 witness: a _perform that raised from the type check of delete_record.
C8_Witness ==
    /\ last.op = "_perform" /\ last.site = "conflict" /\ last.outcome = "APIException"
    /\ \E k \in 1..Len(zones[last.base_domain]) :
           /\ zones[last.base_domain][k].Name = last.sub_domain
           /\ zones[last.base_domain][k].Type = "A"

\* the successful listings among the probes of the last call
ProbesListed ==
    {k \in 1..last.probes :
        /\ last.calls[k].result = "ok" /\ last.calls[k].Offset = 0
        /\ ~(k < Len(last.calls) /\ last.calls[k + 1].api = "DescribeRecordList"
                                 /\ last.calls[k + 1].Offset > 0)}

\* C9: when the listing of every candidate fails, determine_base_domain raises
\* PluginError and its tried list holds all the candidates, in probe order and once
\* each, every one of them listed; for a domain of one label the tried list is empty
\* and no client call is made.
C9_ExhaustedResolution ==
    (last.op = "_perform" /\ ProbesListed = {})
    => /\ ~last.resolved
       /\ last.outcome = "PluginError" /\ last.site = "determine_base_domain"
       /\ last.tried = ProbeOrder(last.domain)
       /\ Len(last.calls) = last.probes
       /\ \A k \in 1..Len(last.tried) :
              /\ ListingFailed(last.calls, last.probes, last.tried[k])
              /\ \A j \in 1..Len(last.tried) : last.tried[j] = last.tried[k] => j = k
       /\ \A k \in 1..Len(last.calls) :
              /\ last.calls[k].api = "DescribeRecordList"
              /\ \E j \in 1..Len(last.tried) : last.tried[j] = last.calls[k].Domain
       /\ Len(split(last.domain)) = 1 => (last.tried = <<>> /\ last.calls = <<>>)

\* C9 witness: the resolution of a name of three labels fails after both candidates.
C9_Witness ==
    /\ last.op = "_perform" /\ ~last.resolved
    /\ Len(split(last.domain)) = 3 /\ Len(last.tried) = 2

\* C10 (as claimed): describe_record_list on an owned domain, with no client call
\* raising, returns all the records of the domain, whatever their number.
C10_ListsEveryPage ==
    ( /\ last.op = "describe_record_list" /\ last.domain \in DOMAIN zones
      /\ \A k \in 1..Len(last.calls) : last.calls[k].result = "ok" )
    => (last.outcome = "ok" /\ last.records = zones[last.domain])

\* C11: the record a successful _perform creates is in the zone its resolution
\* returned, its name followed by "." and that zone is the validation name, its
\* type is TXT, its value the validation token and its TTL 600; the map holds
\* (zone, RecordId) for the validation name.
C11_CreatedRecord ==
    (last.op = "_perform" /\ Creates(last.calls) # {})
    => /\ last.resolved /\ last.outcome = "ok"
       /\ Cardinality(Creates(last.calls)) = 1
       /\ Made(last.calls)[1] = last.base_domain
       /\ \E k \in 1..Len(zones[last.base_domain]) :
              LET rec == zones[last.base_domain][k]
              IN  /\ rec.RecordId = Made(last.calls)[2]
                  /\ rec.Name \o <<DOT>> \o last.base_domain = last.validation_name
                  /\ rec.Type = "TXT"
                  /\ rec.Value = last.validation
                  /\ rec.TTL = 600
       /\ cleanup_maps[last.validation_name] = Made(last.calls)

\* C11 witness: _perform for a.b.c in the zone b.c creates the record named "_.a".
C11_Witness ==
    /\ last.op = "_perform" /\ last.outcome = "ok"
    /\ last.validation_name = Challenge(Str_a_b_c) /\ last.base_domain = Str_b_c
    /\ \E k \in 1..Len(zones[Str_b_c]) :
           /\ zones[Str_b_c][k].Name = <<"_", ".", "a">>
           /\ zones[Str_b_c][k].RecordId = last.record_id
           /\ zones[Str_b_c][k].Value = last.validation

\* C12: when the validation name does not end with "." and the resolved zone,
\* _perform raises PluginError from chk_base_domain: its only client calls are the
\* listings of the resolution, and the zones, the RecordId counter and the map are
\* left as they were.
C12_SuffixChecked ==
    [][ ( /\ last'.op = "_perform" /\ last'.resolved
          /\ ~endswith(last'.validation_name, <<DOT>> \o last'.base_domain) )
        => /\ last'.outcome = "PluginError" /\ last'.site = "chk_base_domain"
           /\ Len(last'.calls) = last'.probes
           /\ \A k \in 1..Len(last'.calls) : last'.calls[k].api = "DescribeRecordList"
           /\ zones' = zones /\ nextId' = nextId
           /\ cleanup_maps' = cleanup_maps ]_vars

\* C12 witness: _perform for b.c with the validation name "_.ab.c" resolves b.c
\* and raises from chk_base_domain, while the zone holds records.
C12_Witness ==
    /\ last.op = "_perform" /\ last.site = "chk_base_domain"
    /\ last.validation_name = Misuse /\ last.base_domain = Str_b_c
    /\ zones[Str_b_c] # <<>>

\* the k-th call of a log opens a listing (it asks for the first page)
OpensListing(calls, k) ==
    calls[k].api = "DescribeRecordList" /\ calls[k].Offset = 0

\* the listing the k-th call opens raised: the call raised, or the call after it
\* asked for a further page
ListingRaised(calls, k) ==
    \/ calls[k].result = "error"
    \/ k < Len(calls) /\ calls[k + 1].api = "DescribeRecordList" /\ calls[k + 1].Offset > 0

\* the place of a candidate in the order of the loop
PlaceOf(domain, d) == CHOOSE k \in DOMAIN ProbeOrder(domain) : ProbeOrder(domain)[k] = d

\* C13: in the resolution of a _perform, a listing that raises does not end the
\* call: unless its candidate is the last one, the next call lists the next
\* candidate; a listing that succeeds is the last call of the resolution, and its
\* candidate is the zone returned.
C13_FailedListingContinues ==
    (last.op = "_perform")
    => \A k \in 1..last.probes :
           OpensListing(last.calls, k)
           => LET d == last.calls[k].Domain
                  order == ProbeOrder(last.domain)
                  after == IF last.calls[k].result = "error" THEN k + 1 ELSE k + 2
              IN  /\ d \in Candidates(last.domain)
                  /\ (ListingRaised(last.calls, k) /\ PlaceOf(last.domain, d) < Len(order))
                     => /\ after <= last.probes
                        /\ OpensListing(last.calls, after)
                        /\ last.calls[after].Domain = order[PlaceOf(last.domain, d) + 1]
                  /\ (ListingRaised(last.calls, k) /\ PlaceOf(last.domain, d) = Len(order))
                     => /\ ~last.resolved /\ last.site = "determine_base_domain"
                        /\ last.tried = order
                  /\ ~ListingRaised(last.calls, k)
                     => /\ k = last.probes
                        /\ last.resolved /\ last.base_domain = d

\* C13 witness: _perform for a.b.c whose listing of b.c raises and whose listing of
\* a.b.c succeeds; the call goes on and ends without an exception.
C13_Witness ==
    /\ last.op = "_perform" /\ last.domain = Str_a_b_c
    /\ last.outcome = "ok" /\ last.base_domain = Str_a_b_c
    /\ last.probes >= 2
    /\ last.calls[1].Domain = Str_b_c /\ last.calls[1].result = "error"
    /\ ListingSucceeded(last.calls, last.probes, Str_a_b_c)

\* the zone zs[z] holds a TXT record of the given name and value
HoldsToken(zs, z, name, value) ==
    /\ z \in DOMAIN zs
    /\ \E k \in 1..Len(zs[z]) :
           zs[z][k].Name = name /\ zs[z][k].Type = "TXT" /\ zs[z][k].Value = value

\* the record of the entry <<zone, RecordId>>, where the zone still holds it
RecordsOf(zs, entry) ==
    {zs[entry[1]][k] : k \in {j \in 1..Len(zs[entry[1]]) : zs[entry[1]][j].RecordId = entry[2]}}

\* C14 (as claimed): after a successful _perform for a validation name and a
\* token, any call that is not the _cleanup of that name, a _perform for the same
\* name with another token included, leaves a TXT record with that token at the
\* relative name of the validation name.
C14_TokenKeptUntilCleanup ==
    [][ ( /\ last.op = "_perform" /\ last.outcome = "ok"
          /\ ~(last'.op = "_cleanup" /\ last'.validation_name = last.validation_name) )
        => HoldsToken(zones', last.base_domain, last.sub_domain, last.validation) ]_vars

\* C14 (amended): the record a successful _perform created for a validation name
\* stays in its zone, as it is, through every call made for another validation
\* name; only a _perform or a _cleanup for the same name removes it.
C14_KeptByOtherNames ==
    [][ \A v \in DOMAIN created :
            ( /\ RecordsOf(zones, created[v]) # {}
              /\ last'.validation_name # v )
            => RecordsOf(zones', created[v]) = RecordsOf(zones, created[v]) ]_vars

\* C14 witness: a successful _perform for one validation name in a zone that holds
\* the record an earlier _perform created for another validation name, with the
\* other token.
C14_Witness ==
    /\ last.op = "_perform" /\ last.outcome = "ok"
    /\ \E v \in DOMAIN created :
           /\ v # last.validation_name
           /\ created[v][1] = last.base_domain
           /\ \E rec \in RecordsOf(zones, created[v]) :
                  /\ rec.Type = "TXT" /\ rec.Value # last.validation
                  /\ rec.Name \o <<DOT>> \o last.base_domain = v

\* C15: every entry of cleanup_maps names a zone of the account and the RecordId of
\* a record that zone holds.
C15_EntriesReferToRecords ==
    \A v \in DOMAIN cleanup_maps :
        /\ cleanup_maps[v][1] \in DOMAIN zones
        /\ cleanup_maps[v][2] \in IdsIn(zones, cleanup_maps[v][1])

\* the records a zone holds, as a set
Held(zs, z) == {zs[z][k] : k \in 1..Len(zs[z])}

\* C16: a _perform or a _cleanup leaves every zone of the account in place, and
\* every record it does not leave as it was is a record whose name, followed by
\* "." and its zone, is the validation name of the call; for a _perform that zone
\* is the zone resolved and the name the relative name computed, for a _cleanup
\* the record is the one of the entry.
C16_OnlyOwnNameTouched ==
    [][ (last'.op \in {"_perform", "_cleanup"})
        => /\ DOMAIN zones' = DOMAIN zones
           /\ \A z \in DOMAIN zones : \A rec \in Held(zones, z) \ Held(zones', z) :
                  /\ rec.Name \o <<DOT>> \o z = last'.validation_name
                  /\ last'.op = "_perform"
                     => /\ last'.resolved /\ z = last'.base_domain
                        /\ rec.Name = last'.sub_domain
                  /\ last'.op = "_cleanup"
                     => /\ last'.validation_name \in DOMAIN cleanup_maps
                        /\ cleanup_maps[last'.validation_name] = <<z, rec.RecordId>> ]_vars

\* C16 witness: a _perform has deleted a record of its name in a zone that holds a
\* record of another name, while another zone of the account holds records too.
C16_Witness ==
    /\ last.op = "_perform" /\ Deletes(last.calls) # {}
    /\ \E rec \in Held(zones, last.base_domain) :
           rec.Name # last.sub_domain /\ rec.RecordId < FirstNewId
    /\ \E z \in DOMAIN zones : z # last.base_domain /\ zones[z] # <<>>

\* C17: a _perform that raises for a record of its name whose type is not TXT
\* leaves the records of every zone as they were before the call.
C17_ConflictLeavesZone ==
    [][ (last'.op = "_perform" /\ last'.site = "conflict") => zones' = zones ]_vars

\* C18: a _perform that raises, wherever it raises, leaves cleanup_maps as it was;
\* a _perform that returns has called CreateRecord once, as its last call, the call
\* was answered, and the map differs from the one before only in the entry of the
\* validation name, which holds the zone and the RecordId of that answer.
C18_MapWrittenAfterCreate ==
    [][ (last'.op = "_perform")
        => /\ last'.outcome \in {"ok", "PluginError", "APIException"}
           /\ last'.outcome # "ok"
              => /\ cleanup_maps' = cleanup_maps
                 /\ Creates(last'.calls) = {}
                 /\ last'.site \in {"determine_base_domain", "chk_base_domain",
                                    "describe_record_list", "conflict",
                                    "DeleteRecord", "CreateRecord"}
           /\ last'.outcome = "ok"
              => /\ Creates(last'.calls) = {Len(last'.calls)}
                 /\ Made(last'.calls) = <<last'.base_domain, last'.record_id>>
                 /\ last'.record_id = nextId
                 /\ cleanup_maps' = Put(cleanup_maps, last'.validation_name,
                                        <<last'.base_domain, last'.record_id>>) ]_vars

\* C18 witness: a _perform whose CreateRecord raised, for a validation name whose
\* entry of an earlier _perform is still the one in the map.
C18_Witness ==
    /\ last.op = "_perform" /\ last.site = "CreateRecord"
    /\ last.validation_name \in DOMAIN cleanup_maps
    /\ cleanup_maps[last.validation_name] = created[last.validation_name]

\* the calls of a log to one api, answered or not
CallsTo(calls, api) == {k \in 1..Len(calls) : calls[k].api = api}

\* two calls of a log carry the same request
SameRequest(a, b) ==
    /\ a.api = b.api /\ a.Domain = b.Domain /\ a.RecordId = b.RecordId
    /\ a.Offset = b.Offset /\ a.SubDomain = b.SubDomain /\ a.Value = b.Value

OwnRecords(t) ==
    {rec \in Held(zones, t.base_domain) : rec.Name = t.sub_domain /\ rec.Type = "TXT"}

\* C19: when two _perform calls for two validation names, run side by side in any
\* interleaving of their client calls and map writes, have both returned, the zone
\* each resolved holds exactly one TXT record at its relative name, carrying its
\* token and the RecordId its CreateRecord returned; the two records differ, and
\* the map holds for each validation name its zone and that RecordId.
C19_InterleavedSetups ==
    (\A p \in Threads : threads[p].pc = "returned")
    => /\ \A p \in Threads :
              /\ Cardinality(OwnRecords(threads[p])) = 1
              /\ \A rec \in OwnRecords(threads[p]) :
                     /\ rec.Value = threads[p].validation
                     /\ rec.RecordId = threads[p].record_id
                     /\ rec.TTL = TTL
              /\ threads[p].validation_name \in DOMAIN cleanup_maps
              /\ cleanup_maps[threads[p].validation_name] =
                     <<threads[p].base_domain, threads[p].record_id>>
       /\ \A p, q \in Threads :
              p # q => /\ threads[p].record_id # threads[q].record_id
                       /\ threads[p].validation_name # threads[q].validation_name

\* C19 witness: both threads have returned, for two validation names of the same
\* zone and with two tokens; the zone holds both records, the one of thread 2
\* created first.
C19_Witness ==
    /\ \A p \in Threads : threads[p].pc = "returned"
    /\ threads[1].base_domain = threads[2].base_domain
    /\ threads[1].validation # threads[2].validation
    /\ threads[1].sub_domain # threads[2].sub_domain
    /\ threads[2].record_id < threads[1].record_id
    /\ {threads[1].record_id, threads[2].record_id} \subseteq IdsIn(zones, threads[1].base_domain)

====
